---- MODULE Spec2Model ----
(* Model of dagster_airbyte/managed/reconciliation.py: the reconciliation of   *)
(* Airbyte sources, destinations and connections against a remote instance.   *)
(* One behaviour is a sequence of check() / apply() calls of one              *)
(* AirbyteManagedElementReconciler against one remote workspace.               *)
EXTENDS Integers, Sequences, FiniteSets, TLC

VARIABLES
    objects,        \* the AirbyteConnection objects handed to the reconciler
    should_delete,  \* _delete_unmentioned_resources
    flaky,          \* whether requests to the instance may fail in transport
    remote,         \* the Airbyte instance: sources, destinations, connections, next id
    pc,             \* position inside reconcile_config
    dry_run,        \* dry_run of the running reconcile_config
    runs,           \* number of reconcile_config calls started
    existing_sources, existing_dests,   \* maps decoded from the list calls
    existing_connections,               \* map decoded by the running connection phase
    todo,           \* names the running loop has not visited yet
    all_sources, all_dests,             \* result maps of the entity reconcilers
    sources_diff, dests_diff, connections_diff,
    calls,          \* remote calls of the running reconcile_config, in order
    err,            \* "" or the exception that ended the running reconcile_config
    result,         \* the diff returned by the finished reconcile_config
    start_remote,   \* the remote as it was when the running reconcile_config began
    prev            \* the outcome of the reconcile_config call before this one

vars == <<objects, should_delete, flaky, remote, pc, dry_run, runs, existing_sources,
          existing_dests, existing_connections, todo, all_sources, all_dests,
          sources_diff, dests_diff, connections_diff, calls, err, result,
          start_remote, prev>>

--------------------------------------------------------------------------------
(* Bounds and value universes *)

MaxRuns == 2

SrcNames == {"S1", "S2"}
DstNames == {"D1", "D2"}
ConnNames == {"C1", "S1"}
SrcTypes == {"A", "A2"}
DstTypes == {"B", "B2"}

\* destination types whose definition supports basic normalization
NormalizationTypes == {"B"}

\* the discovered stream catalog of a source, by source type
Catalog(type) == IF type = "A" THEN <<"users", "orders">> ELSE <<"orders", "users">>

EmptyMap == [x \in {} |-> ""]
MapGet(m, k, default) == IF k \in DOMAIN m THEN m[k] ELSE default
MapPut(m, k, v) == [x \in DOMAIN m \cup {k} |-> IF x = k THEN v ELSE m[x]]
Range(f) == {f[x] : x \in DOMAIN f}

\* Python's None for an id is the empty string / None: modelled as 0
NoId == 0
NoDefn == <<>>
DefinitionId(type) == <<"defn", type>>

--------------------------------------------------------------------------------
(* AirbyteSyncMode: a named pair (syncMode, destinationSyncMode) *)

SyncModes == {"FULL_REFRESH_OVERWRITE", "INCREMENTAL_APPEND"}

SyncModeValue(mode) ==
    IF mode = "FULL_REFRESH_OVERWRITE"
    THEN [syncMode |-> "full_refresh", destinationSyncMode |-> "overwrite"]
    ELSE [syncMode |-> "incremental", destinationSyncMode |-> "append"]

SyncModeFromJson(config) ==
    IF config.syncMode = "full_refresh" /\ config.destinationSyncMode = "overwrite"
    THEN "FULL_REFRESH_OVERWRITE"
    ELSE "INCREMENTAL_APPEND"

--------------------------------------------------------------------------------
(* ManagedElementDiff: a set of leaves <<path, kind, old, new>>.               *)

EmptyDiff == {}

Leaf(path, kind, old, new) == [path |-> path, kind |-> kind, old |-> old, new |-> new]

\* diff_dicts on two flat maps with string values
diff_dicts(config_dict, dst_dict) ==
    {Leaf(<<k>>, "added", "", config_dict[k]) : k \in DOMAIN config_dict \ DOMAIN dst_dict}
    \cup {Leaf(<<k>>, "deleted", dst_dict[k], "") : k \in DOMAIN dst_dict \ DOMAIN config_dict}
    \cup {Leaf(<<k>>, "modified", dst_dict[k], config_dict[k]) :
            k \in {x \in DOMAIN config_dict \cap DOMAIN dst_dict : config_dict[x] # dst_dict[x]}}

with_nested(name, diff) == {[d EXCEPT !.path = <<name>> \o @] : d \in diff}

join(d1, d2) == d1 \cup d2

is_empty(diff) == diff = {}

--------------------------------------------------------------------------------
(* The managed types (dagster_airbyte.managed.types)                           *)

\* Optional[...]: None is the record with the empty name
NoEntity == [name |-> "", type |-> "", cfg |-> EmptyMap]
NoInit == [entity |-> NoEntity, id |-> NoId, defn |-> NoDefn]
NoConn == [name |-> "", source |-> NoEntity, destination |-> NoEntity,
           normalize_data |-> "None", stream_config |-> EmptyMap]
NoInitConn == [connection |-> NoConn, connection_id |-> NoId]

IsNone(x) == x.name = ""

\* InitializedAirbyteSource.from_api_json / InitializedAirbyteDestination.from_api_json
entity_from_api_json(json) ==
    [entity |-> [name |-> json.name, type |-> json.type, cfg |-> json.cfg],
     id |-> json.id,
     defn |-> DefinitionId(json.type)]

\* the entity of a name-keyed map of initialized entities that carries a remote id
entity_by_id(inits, id) ==
    LET hits == {n \in DOMAIN inits : inits[n].id = id}
    IN IF hits = {} THEN NoEntity ELSE inits[CHOOSE n \in hits : TRUE].entity

\* InitializedAirbyteConnection.from_api_json
connection_from_api_json(json, init_sources, init_dests) ==
    [connection |->
        [name |-> json.name,
         source |-> entity_by_id(init_sources, json.sourceId),
         destination |-> entity_by_id(init_dests, json.destinationId),
         normalize_data |-> IF json.operationIds # {} THEN "True" ELSE "False",
         stream_config |->
            [i \in {json.streams[k].name : k \in DOMAIN json.streams} |->
                SyncModeFromJson(
                    (CHOOSE st \in Range(json.streams) : st.name = i).config)]],
     connection_id |-> json.id]

\* AirbyteSource.must_be_recreated / AirbyteDestination.must_be_recreated
entity_must_be_recreated(self, other) ==
    self.name # other.name \/ self.type # other.type

\* AirbyteConnection.must_be_recreated; "raise" when a referenced entity of the
\* observed connection could not be resolved (attribute access on None)
connection_must_be_recreated(self, other) ==
    IF IsNone(other.source) \/ IsNone(other.destination)
    THEN "raise"
    ELSE IF entity_must_be_recreated(self.source, other.source)
            \/ entity_must_be_recreated(self.destination, other.destination)
         THEN "yes"
         ELSE "no"

--------------------------------------------------------------------------------
(* Diff utilities of reconciliation.py *)

diff_entities(config_ent, curr_ent) ==
    LET diff == diff_dicts(IF IsNone(config_ent) THEN EmptyMap ELSE config_ent.cfg,
                           IF IsNone(curr_ent) THEN EmptyMap ELSE curr_ent.cfg)
        name == IF ~IsNone(config_ent) THEN config_ent.name
                ELSE IF ~IsNone(curr_ent) THEN curr_ent.name ELSE "Unknown"
    IN IF ~is_empty(diff) THEN with_nested(name, diff) ELSE EmptyDiff

diff_sources(config_src, curr_src) == diff_entities(config_src, curr_src)

diff_destinations(config_dst, curr_dst) == diff_entities(config_dst, curr_dst)

\* the scalar keys of conn_dict; the key "streams" holds a nested map
conn_dict(conn) ==
    IF IsNone(conn) THEN EmptyMap
    ELSE [k \in {"source", "destination", "normalize data", "streams"} |->
            CASE k = "source" ->
                    IF ~IsNone(conn.source) THEN conn.source.name ELSE "Unknown"
              [] k = "destination" ->
                    IF ~IsNone(conn.destination) THEN conn.destination.name ELSE "Unknown"
              [] k = "normalize data" -> conn.normalize_data
              [] OTHER -> "<streams>"]

diff_connections(config_conn, curr_conn) ==
    LET flat == diff_dicts(conn_dict(config_conn), conn_dict(curr_conn))
        nested == IF IsNone(config_conn) \/ IsNone(curr_conn) THEN EmptyDiff
                  ELSE with_nested("streams",
                           diff_dicts(config_conn.stream_config, curr_conn.stream_config))
        diff == join(flat, nested)
        name == IF ~IsNone(config_conn) THEN config_conn.name
                ELSE IF ~IsNone(curr_conn) THEN curr_conn.name ELSE "Unknown"
    IN IF ~is_empty(diff) THEN with_nested(name, diff) ELSE EmptyDiff

\* gen_configured_stream_json for one discovered stream
gen_configured_stream_json(source_stream, user_stream_config) ==
    [name |-> source_stream, config |-> SyncModeValue(user_stream_config[source_stream])]

\* configured_streams with the kept streams in reverse order
configured_streams_reversed(base_streams, stream_config) ==
    LET kept == SelectSeq(base_streams, LAMBDA st : st \in DOMAIN stream_config)
    IN [i \in DOMAIN kept |->
           gen_configured_stream_json(kept[Len(kept) + 1 - i], stream_config)]

\* the list comprehension of reconcile_connections_post
configured_streams(base_streams, stream_config) ==
    LET kept == SelectSeq(base_streams, LAMBDA st : st \in DOMAIN stream_config)
    IN [i \in DOMAIN kept |-> gen_configured_stream_json(kept[i], stream_config)]

--------------------------------------------------------------------------------
(* The Airbyte instance behind AirbyteResource.  An environment e is the       *)
(* record [remote, calls, err, failAfter]: the instance, the calls made so     *)
(* far, the exception raised ("" when none), and which of the coming requests  *)
(* fails in transport (0 when none, 1 for the next one).                       *)

KnownSrcTypes == {"A", "A2"}
KnownDstTypes == {"B", "B2"}

CatalogId(source_id) == 100 + source_id

BaseCall == [endpoint |-> "", id |-> NoId, name |-> "", cfg |-> EmptyMap,
             defn |-> NoDefn, sourceId |-> NoId, destinationId |-> NoId,
             catalogId |-> NoId, operationIds |-> {}, streams |-> <<>>, ok |-> TRUE]

MutatingEndpoints ==
    {"/sources/create", "/sources/update", "/sources/delete",
     "/destinations/create", "/destinations/update", "/destinations/delete",
     "/connections/create", "/connections/update", "/connections/delete",
     "/operations/create"}

\* an exception; once one is raised nothing after it runs
Raise(e, msg) == IF e.err # "" THEN e ELSE [e EXCEPT !.err = msg]

\* the request reaches the instance: one request fewer until the failing one
Reached(e) == [e EXCEPT !.failAfter = IF @ > 0 THEN @ - 1 ELSE 0]

\* the request fails in transport: it is recorded as failed and raises
Failed(e, call) ==
    [e EXCEPT !.calls = Append(@, [call EXCEPT !.ok = FALSE]),
              !.err = "remote: request failed", !.failAfter = 0]

\* a read-only call: it is recorded and changes nothing
lookup(e, endpoint, id, name) ==
    LET call == [BaseCall EXCEPT !.endpoint = endpoint, !.id = id, !.name = name]
    IN IF e.err # "" THEN e
       ELSE IF e.failAfter = 1 THEN Failed(e, call)
       ELSE [Reached(e) EXCEPT !.calls = Append(@, call)]

\* res.make_request for the mutating endpoints.  The instance refuses to delete
\* a source or destination that a connection references; whether it accepts a
\* connection whose sourceId or destinationId names nothing is not known, and
\* lenient chooses.
make_request(e, call, lenient) ==
    LET r == e.remote
        ep == call.endpoint
        fail(msg) == [e EXCEPT !.calls = Append(@, [call EXCEPT !.ok = FALSE]),
                               !.err = msg, !.failAfter = 0]
        done(r2) == [Reached(e) EXCEPT !.calls = Append(@, call), !.remote = r2]
        srcIds == {x.id : x \in r.sources}
        dstIds == {x.id : x \in r.destinations}
    IN CASE e.err # "" -> e
         [] e.failAfter = 1 -> Failed(e, call)
         [] ep = "/sources/delete" ->
              IF \E c \in r.connections : c.sourceId = call.id
              THEN fail("remote: source is referenced by a connection")
              ELSE done([r EXCEPT !.sources = {x \in @ : x.id # call.id}])
         [] ep = "/destinations/delete" ->
              IF \E c \in r.connections : c.destinationId = call.id
              THEN fail("remote: destination is referenced by a connection")
              ELSE done([r EXCEPT !.destinations = {x \in @ : x.id # call.id}])
         [] ep = "/connections/delete" ->
              done([r EXCEPT !.connections = {x \in @ : x.id # call.id}])
         [] ep = "/sources/update" ->
              IF call.id \notin srcIds THEN fail("remote: no such source")
              ELSE done([r EXCEPT !.sources =
                     {IF x.id = call.id THEN [x EXCEPT !.name = call.name, !.cfg = call.cfg]
                      ELSE x : x \in @}])
         [] ep = "/destinations/update" ->
              IF call.id \notin dstIds THEN fail("remote: no such destination")
              ELSE done([r EXCEPT !.destinations =
                     {IF x.id = call.id THEN [x EXCEPT !.name = call.name, !.cfg = call.cfg]
                      ELSE x : x \in @}])
         [] ep = "/sources/create" ->
              done([r EXCEPT !.sources = @ \cup
                        {[id |-> r.nextId, name |-> call.name,
                          type |-> call.defn[2], cfg |-> call.cfg]},
                      !.nextId = @ + 1])
         [] ep = "/destinations/create" ->
              IF call.defn = NoDefn THEN fail("remote: no destination definition")
              ELSE done([r EXCEPT !.destinations = @ \cup
                        {[id |-> r.nextId, name |-> call.name,
                          type |-> call.defn[2], cfg |-> call.cfg]},
                      !.nextId = @ + 1])
         [] ep = "/operations/create" ->
              done([r EXCEPT !.nextId = @ + 1])
         [] ep = "/connections/update" ->
              IF call.id \notin {x.id : x \in r.connections}
              THEN fail("remote: no such connection")
              ELSE done([r EXCEPT !.connections =
                     {IF x.id = call.id
                      THEN [x EXCEPT !.name = call.name,
                                     !.operationIds = call.operationIds,
                                     !.streams = call.streams]
                      ELSE x : x \in @}])
         [] ep = "/connections/create" ->
              IF ~lenient /\ (call.sourceId \notin srcIds \/ call.destinationId \notin dstIds)
              THEN fail("remote: connection references a missing source or destination")
              ELSE done([r EXCEPT !.connections = @ \cup
                        {[id |-> r.nextId, name |-> call.name,
                          sourceId |-> call.sourceId,
                          destinationId |-> call.destinationId,
                          operationIds |-> call.operationIds,
                          streams |-> call.streams]},
                      !.nextId = @ + 1])

\* res.get_source_definition_by_name / res.get_destination_definition_by_name
get_definition_by_name(known, type) ==
    IF type \in known THEN DefinitionId(type) ELSE NoDefn

\* res.does_dest_support_normalization
does_dest_support_normalization(defn) == defn[2] \in NormalizationTypes

--------------------------------------------------------------------------------
(* The loop bodies of the four phases.  Each takes the environment and the     *)
(* loop's accumulators and returns them after one iteration.                   *)

IsNoneInit(x) == IsNone(x.entity)

\* the deleted entity left out of the result map
record_deleted_never(out, name, existing) == out

\* `initialized_sources[source_name] = existing_source` of the delete branch
\* (line 141, and line 227 for destinations)
record_deleted(out, name, existing) == MapPut(out, name, existing)

\* existing_source kept after the delete
surviving_forgotten(recreate, existing) == existing

\* `existing_source = None` after the delete (line 147)
surviving(recreate, existing) == IF recreate THEN NoInit ELSE existing

\* the entity reconcilers never skipping an entity
skip_unmentioned_never(delete, existing, configured) == FALSE

\* "Ignore sources not mentioned in the user config unless the user specifies to
\* delete" (line 130, and line 212 for destinations)
skip_unmentioned(delete, existing, configured) ==
    ~delete /\ ~IsNoneInit(existing) /\ IsNone(configured)

\* a reconcile_sources that creates every configured source and looks at
\* nothing the instance holds
reconcile_sources_body_always_create(e, source_name, config_sources, existing, out, diff, dry, delete) ==
    LET configured_source == MapGet(config_sources, source_name, NoEntity)
        defn_id == get_definition_by_name(KnownSrcTypes, configured_source.type)
    IN IF IsNone(configured_source) \/ defn_id = NoDefn
       THEN [env |-> e, out |-> out, diff |-> diff]
       ELSE [env |-> IF dry THEN e
                     ELSE make_request(e, [BaseCall EXCEPT
                                             !.endpoint = "/sources/create",
                                             !.name = configured_source.name,
                                             !.cfg = configured_source.cfg,
                                             !.defn = defn_id], FALSE),
             out |-> MapPut(out, source_name,
                            [entity |-> configured_source,
                             id |-> IF dry THEN NoId ELSE e.remote.nextId,
                             defn |-> defn_id]),
             diff |-> diff]

\* one iteration of the loop of reconcile_sources
reconcile_sources_body(e, source_name, config_sources, existing, out, diff, dry, delete) ==
    LET configured_source == MapGet(config_sources, source_name, NoEntity)
        existing_source == MapGet(existing, source_name, NoInit)
    IN IF skip_unmentioned(delete, existing_source, configured_source)
       THEN [env |-> e, out |-> MapPut(out, source_name, existing_source), diff |-> diff]
       ELSE
       LET diff1 == join(diff, diff_sources(configured_source, existing_source.entity))
           recreate == ~IsNoneInit(existing_source)
                       /\ (IsNone(configured_source)
                           \/ entity_must_be_recreated(configured_source,
                                                       existing_source.entity))
           out1 == IF recreate THEN record_deleted(out, source_name, existing_source)
                   ELSE out
           e1 == IF recreate /\ ~dry
                 THEN make_request(e, [BaseCall EXCEPT !.endpoint = "/sources/delete",
                                                       !.id = existing_source.id,
                                                       !.name = source_name], FALSE)
                 ELSE e
           existing1 == surviving(recreate, existing_source)
       IN IF e1.err # "" \/ IsNone(configured_source)
          THEN [env |-> e1, out |-> out1, diff |-> diff1]
          ELSE
          LET e2 == lookup(e1, "get_source_definition_by_name", NoId,
                           configured_source.type)
              defn_id == get_definition_by_name(KnownSrcTypes, configured_source.type)
              base == [BaseCall EXCEPT !.name = configured_source.name,
                                       !.cfg = configured_source.cfg]
              e3 == IF dry THEN e2
                    ELSE IF ~IsNoneInit(existing1)
                    THEN make_request(e2, [base EXCEPT !.endpoint = "/sources/update",
                                                       !.id = existing1.id], FALSE)
                    ELSE make_request(e2, [base EXCEPT !.endpoint = "/sources/create",
                                                       !.defn = defn_id], FALSE)
              source_id == IF ~IsNoneInit(existing1) THEN existing1.id
                           ELSE IF dry THEN NoId ELSE e2.remote.nextId
          IN IF defn_id = NoDefn
             THEN [env |-> Raise(e2, "check.not_none: no source definition"),
                   out |-> out1, diff |-> diff1]
             ELSE [env |-> e3,
                   out |-> MapPut(out1, source_name,
                                  [entity |-> configured_source, id |-> source_id,
                                   defn |-> defn_id]),
                   diff |-> diff1]

\* one iteration of the loop of reconcile_destinations
reconcile_destinations_body(e, destination_name, config_destinations, existing, out, diff, dry, delete) ==
    LET configured_destination == MapGet(config_destinations, destination_name, NoEntity)
        existing_destination == MapGet(existing, destination_name, NoInit)
    IN IF skip_unmentioned(delete, existing_destination, configured_destination)
       THEN [env |-> e, out |-> MapPut(out, destination_name, existing_destination),
             diff |-> diff]
       ELSE
       LET diff1 == join(diff, diff_destinations(configured_destination,
                                                 existing_destination.entity))
           recreate == ~IsNoneInit(existing_destination)
                       /\ (IsNone(configured_destination)
                           \/ entity_must_be_recreated(configured_destination,
                                                       existing_destination.entity))
       IN IF recreate
          THEN [env |-> IF dry THEN e
                        ELSE make_request(e,
                                 [BaseCall EXCEPT !.endpoint = "/destinations/delete",
                                                  !.id = existing_destination.id,
                                                  !.name = destination_name], FALSE),
                out |-> record_deleted(out, destination_name, existing_destination),
                diff |-> diff1]
          ELSE IF IsNone(configured_destination)
          THEN [env |-> e, out |-> out, diff |-> diff1]
          ELSE
          LET e2 == lookup(e, "get_destination_definition_by_name", NoId,
                           configured_destination.type)
              defn_id == get_definition_by_name(KnownDstTypes, configured_destination.type)
              base == [BaseCall EXCEPT !.name = configured_destination.name,
                                       !.cfg = configured_destination.cfg]
              e3 == IF dry THEN e2
                    ELSE IF ~IsNoneInit(existing_destination)
                    THEN make_request(e2, [base EXCEPT !.endpoint = "/destinations/update",
                                                       !.id = existing_destination.id],
                                      FALSE)
                    ELSE make_request(e2, [base EXCEPT !.endpoint = "/destinations/create",
                                                       !.defn = defn_id], FALSE)
              destination_id == IF ~IsNoneInit(existing_destination)
                                THEN existing_destination.id
                                ELSE IF dry THEN NoId ELSE e2.remote.nextId
          IN [env |-> e3,
              out |-> MapPut(out, destination_name,
                             [entity |-> configured_destination, id |-> destination_id,
                              defn |-> defn_id]),
              diff |-> diff1]

\* pre_must_delete without the recreate case: only unmentioned connections go
pre_must_delete_unmentioned_only(config_conn, existing_conn) ==
    IF ~IsNone(existing_conn.connection) /\ IsNone(config_conn) THEN "yes" ELSE "no"

\* the condition of lines 461-463: "yes", "no", or "raise"
pre_must_delete(config_conn, existing_conn) ==
    IF IsNone(existing_conn.connection) THEN "no"
    ELSE IF IsNone(config_conn) THEN "yes"
    ELSE connection_must_be_recreated(config_conn, existing_conn.connection)

\* connections_delete without the dry_run guard
connections_delete_unguarded(e, existing_conn, conn_name, dry) ==
    make_request(e, [BaseCall EXCEPT !.endpoint = "/connections/delete",
                                     !.id = existing_conn.connection_id,
                                     !.name = conn_name], FALSE)

\* the guarded connections/delete of lines 464-468
connections_delete(e, existing_conn, conn_name, dry) ==
    IF ~dry
    THEN make_request(e, [BaseCall EXCEPT !.endpoint = "/connections/delete",
                                          !.id = existing_conn.connection_id,
                                          !.name = conn_name], FALSE)
    ELSE e

\* one iteration of the loop of reconcile_connections_pre
reconcile_connections_pre_body(e, conn_name, config_connections, existing, diff, dry, delete) ==
    LET config_conn == MapGet(config_connections, conn_name, NoConn)
        existing_conn == MapGet(existing, conn_name, NoInitConn)
    IN IF ~delete /\ IsNone(config_conn)
       THEN [env |-> e, diff |-> diff]
       ELSE
       LET diff1 == join(diff, diff_connections(config_conn, existing_conn.connection))
           recreate == pre_must_delete(config_conn, existing_conn)
       IN [env |-> IF recreate = "raise"
                   THEN Raise(e, "AttributeError: 'NoneType' object has no attribute")
                   ELSE IF recreate = "yes"
                   THEN connections_delete(e, existing_conn, conn_name, dry)
                   ELSE e,
           diff |-> diff1]

\* reconcile_normalization that looks at the destination only and never at the
\* user's setting
reconcile_normalization_ignoring_intent(e, existing_connection_id, destination, normalization_config) ==
    IF destination.defn # NoDefn /\ does_dest_support_normalization(destination.defn)
    THEN [env |-> make_request(e, [BaseCall EXCEPT !.endpoint = "/operations/create",
                                                   !.name = "Normalization"], FALSE),
          op |-> e.remote.nextId]
    ELSE [env |-> e, op |-> NoId]

\* reconcile_normalization: returns the environment and the operation id
reconcile_normalization(e, existing_connection_id, destination, normalization_config) ==
    LET e1 == IF existing_connection_id # NoId
              THEN lookup(e, "/operations/list", existing_connection_id, "")
              ELSE e
        operations == IF existing_connection_id = NoId THEN {}
                      ELSE UNION {c.operationIds :
                                    c \in {x \in e.remote.connections :
                                             x.id = existing_connection_id}}
        existing_basic_norm_op_id ==
            IF operations = {} THEN NoId
            ELSE CHOOSE o \in operations : \A o2 \in operations : o <= o2
        e2 == IF destination.defn # NoDefn
              THEN lookup(e1, "does_dest_support_normalization", NoId, destination.defn[2])
              ELSE e1
    IN IF normalization_config # "False"
       THEN IF destination.defn # NoDefn /\ does_dest_support_normalization(destination.defn)
            THEN IF existing_basic_norm_op_id # NoId
                 THEN [env |-> e2, op |-> existing_basic_norm_op_id]
                 ELSE [env |-> make_request(e2, [BaseCall EXCEPT
                                                   !.endpoint = "/operations/create",
                                                   !.name = "Normalization"], FALSE),
                       op |-> e2.remote.nextId]
            ELSE IF normalization_config = "True"
            THEN [env |-> Raise(e2, "Exception: destination does not support normalization"),
                  op |-> NoId]
            ELSE [env |-> e2, op |-> NoId]
       ELSE [env |-> e1, op |-> NoId]

\* res.get_source_schema(source_id)["catalog"]["streams"], <<>> for a missing source
get_source_schema(r, source_id) ==
    LET hits == {x \in r.sources : x.id = source_id}
    IN IF hits = {} THEN <<>> ELSE Catalog((CHOOSE x \in hits : TRUE).type)

\* a post-phase that replaces an existing connection (delete, then create)
\* instead of updating it
reconcile_connections_post_body_replacing(e, conn_name, config_conn, existing, init_sources, init_dests, dry, lenient) ==
    LET existing_conn == MapGet(existing, conn_name, NoInitConn)
        e1 == IF IsNone(existing_conn.connection) THEN e
              ELSE connections_delete(e, existing_conn, conn_name, dry)
        source == MapGet(init_sources, config_conn.source.name, NoInit)
        destination == MapGet(init_dests, config_conn.destination.name, NoInit)
    IN IF dry THEN e
       ELSE make_request(e1, [BaseCall EXCEPT !.endpoint = "/connections/create",
                                              !.name = conn_name,
                                              !.catalogId = CatalogId(source.id),
                                              !.sourceId = source.id,
                                              !.destinationId = destination.id], TRUE)

\* one iteration of the loop of reconcile_connections_post
reconcile_connections_post_body(e, conn_name, config_conn, existing, init_sources, init_dests, dry, lenient) ==
    LET existing_conn == MapGet(existing, conn_name, NoInitConn)
        srcIds == {x.id : x \in e.remote.sources}
    IN IF dry THEN e
       ELSE IF config_conn.destination.name \notin DOMAIN init_dests
       THEN Raise(e, "KeyError: init_dests")
       ELSE IF "name" \in DOMAIN existing
       THEN Raise(e, "AttributeError: InitializedAirbyteConnection has no get")
       ELSE
       LET destination == init_dests[config_conn.destination.name]
           norm == reconcile_normalization(e, NoId, destination,
                                           config_conn.normalize_data)
           e1 == norm.env
       IN IF e1.err # "" THEN e1
          ELSE IF config_conn.source.name \notin DOMAIN init_sources
          THEN Raise(e1, "KeyError: init_sources")
          ELSE
          LET source == init_sources[config_conn.source.name]
              e2 == lookup(e1, "get_source_schema", source.id, "")
              streams == configured_streams(get_source_schema(e1.remote, source.id),
                                            config_conn.stream_config)
              base == [BaseCall EXCEPT !.name = conn_name,
                                       !.operationIds =
                                           IF norm.op # NoId THEN {norm.op} ELSE {},
                                       !.streams = streams]
          IN IF source.id \notin srcIds
             THEN Raise(e2, "remote: no such source")
             ELSE IF ~IsNone(existing_conn.connection)
             THEN IF conn_name \notin DOMAIN init_sources
                  THEN Raise(e2, "KeyError: init_sources[conn_name]")
                  ELSE
                  LET source2 == init_sources[conn_name]
                      e3 == lookup(e2, "get_source_catalog_id", source2.id, "")
                  IN IF source2.id \notin srcIds
                     THEN Raise(e3, "remote: no such source")
                     ELSE make_request(e3,
                              [base EXCEPT !.endpoint = "/connections/update",
                                           !.catalogId = CatalogId(source2.id),
                                           !.id = existing_conn.connection_id], lenient)
             ELSE
             LET e3 == lookup(e2, "get_source_catalog_id", source.id, "")
             IN make_request(e3,
                    [base EXCEPT !.endpoint = "/connections/create",
                                 !.catalogId = CatalogId(source.id),
                                 !.sourceId = source.id,
                                 !.destinationId = destination.id], lenient)

--------------------------------------------------------------------------------
(* Inputs: the configured objects and the instance the reconciler meets.       *)

CfgA == [k \in {"host"} |-> "a"]
CfgB == [k \in {"host"} |-> "b"]

Ent(n, t, c) == [name |-> n, type |-> t, cfg |-> c]

StreamsUsers == [k \in {"users"} |-> "FULL_REFRESH_OVERWRITE"]
StreamsGhost == [k \in {"users", "orders", "ghost"} |->
                    IF k = "orders" THEN "FULL_REFRESH_OVERWRITE" ELSE "INCREMENTAL_APPEND"]

Conn(n, src, dst, norm, streams) ==
    [name |-> n, source |-> src, destination |-> dst,
     normalize_data |-> norm, stream_config |-> streams]

\* the ids the instance gave to what it holds before the first call
SrcId(n) == IF n = "S1" THEN 1 ELSE 2
DstId(n) == IF n = "D1" THEN 3 ELSE 4
ConnId(n) == IF n = "C1" THEN 5 ELSE 6
OpId(n) == IF n = "C1" THEN 7 ELSE 8
FirstFreeId == Cardinality(SrcNames) + Cardinality(DstNames) + 2 * Cardinality(ConnNames) + 1

RemoteSrc(n, t, c) == [id |-> SrcId(n), name |-> n, type |-> t, cfg |-> c]
RemoteDst(n, t, c) == [id |-> DstId(n), name |-> n, type |-> t, cfg |-> c]
RemoteConn(n, s, d, hasOp, streams) ==
    [id |-> ConnId(n), name |-> n, sourceId |-> SrcId(s), destinationId |-> DstId(d),
     operationIds |-> IF hasOp THEN {OpId(n)} ELSE {},
     streams |-> streams]

RemoteStreamsUsers == <<gen_configured_stream_json("users", StreamsUsers)>>

Scenario(objs, delete, srcs, dsts, conns) ==
    [objects |-> objs, should_delete |-> delete,
     remote |-> [sources |-> srcs, destinations |-> dsts, connections |-> conns,
                 nextId |-> FirstFreeId]]

\* every connection of the instance references a source and a destination it holds
WellFormed(sc) ==
    \A c \in sc.remote.connections :
        /\ c.sourceId \in {x.id : x \in sc.remote.sources}
        /\ c.destinationId \in {x.id : x \in sc.remote.destinations}

\* optional remote connections named after ConnNames, each S1->D1 or S2->D1 style
RemoteConnChoices(srcOf, dstOf) ==
    {UNION {pick[n] : n \in ConnNames} :
        pick \in [ConnNames ->
                    {{}} \cup {{RemoteConn("C1", s, d, FALSE, RemoteStreamsUsers)} :
                                  s \in srcOf, d \in dstOf}
                         \cup {{RemoteConn("S1", s, d, FALSE, RemoteStreamsUsers)} :
                                  s \in srcOf, d \in dstOf}]}

RemoteConnSets(srcOf, dstOf) ==
    {cs \in RemoteConnChoices(srcOf, dstOf) :
        \A c1, c2 \in cs : c1.name = c2.name => c1 = c2}

\* one configured connection S1 -> D1; the source side of the instance varies
SourceScenarios ==
    {sc \in {Scenario({Conn(cn, Ent("S1", t, c), Ent("D1", "B", CfgA), "False",
                            StreamsUsers)},
                      delete, s1 \cup s2, {RemoteDst("D1", "B", CfgA)}, conns) :
                cn \in ConnNames, t \in SrcTypes, c \in {EmptyMap, CfgA},
                delete \in BOOLEAN,
                s1 \in {{}, {RemoteSrc("S1", "A", CfgA)}, {RemoteSrc("S1", "A", CfgB)}},
                s2 \in {{}, {RemoteSrc("S2", "A", CfgA)}},
                conns \in RemoteConnSets(SrcNames, {"D1"})} :
        WellFormed(sc)}

\* one configured connection S1 -> D1; the destination side of the instance varies
DestinationScenarios ==
    {sc \in {Scenario({Conn(cn, Ent("S1", "A", CfgA), Ent("D1", t, c), "False",
                            StreamsUsers)},
                      delete, {RemoteSrc("S1", "A", CfgA)}, d1 \cup d2, conns) :
                cn \in ConnNames, t \in DstTypes, c \in {EmptyMap, CfgA},
                delete \in BOOLEAN,
                d1 \in {{}, {RemoteDst("D1", "B", CfgA)}, {RemoteDst("D1", "B", CfgB)}},
                d2 \in {{}, {RemoteDst("D2", "B", CfgA)}},
                conns \in RemoteConnSets({"S1"}, DstNames)} :
        WellFormed(sc)}

\* up to two configured connections over fixed entities; normalization, streams
\* and the connections of the instance vary
ConnectionScenarios ==
    {sc \in {Scenario(UNION {IF srcOf[cn] = "" THEN {}
                             ELSE {Conn(cn, Ent(srcOf[cn], "A", CfgA),
                                        Ent("D1", dt, CfgA), norm, streams)} :
                             cn \in ConnNames},
                      delete,
                      IF present THEN {RemoteSrc(n, "A", CfgA) : n \in SrcNames} ELSE {},
                      IF present THEN {RemoteDst("D1", dt, CfgA)} ELSE {},
                      IF present /\ linked
                      THEN UNION {IF srcOf[cn] = "" THEN {}
                                  ELSE {RemoteConn(cn, srcOf[cn], "D1", hasOp,
                                                   RemoteStreamsUsers)} :
                                  cn \in ConnNames}
                      ELSE {}) :
                srcOf \in [ConnNames -> SrcNames \cup {""}],
                dt \in DstTypes, norm \in {"None", "True", "False"},
                streams \in {StreamsUsers, StreamsGhost},
                delete \in BOOLEAN, present \in BOOLEAN, linked \in BOOLEAN,
                hasOp \in BOOLEAN} :
        WellFormed(sc)}

\* an empty instance and one configured connection S1 -> D1
FreshScenarios ==
    {Scenario({Conn(cn, Ent("S1", "A", sc), Ent("D1", dt, dc), norm, StreamsUsers)},
              delete, {}, {}, {}) :
        cn \in ConnNames, sc \in {EmptyMap, CfgA}, dc \in {EmptyMap, CfgA},
        dt \in DstTypes, norm \in {"None", "False"}, delete \in BOOLEAN}

\* a type name for which the instance has no definition
UnknownType == "X"

\* one configured connection S1 -> D1 whose source or destination may have a type
\* the instance does not know
UnknownTypeScenarios ==
    {Scenario({Conn("C1", Ent("S1", st, CfgA), Ent("D1", dt, CfgA), "False",
                    StreamsUsers)},
              delete, srcs, dsts, {}) :
        st \in {"A", UnknownType}, dt \in {"B", UnknownType}, delete \in BOOLEAN,
        srcs \in {{}, {RemoteSrc("S1", "A", CfgA)}},
        dsts \in {{}, {RemoteDst("D1", "B", CfgA)}}}

\* two configured connections on one source and one destination that the
\* instance holds with both connections; the configured types may have changed
SharedScenarios ==
    {Scenario({Conn(cn, Ent("S1", st, CfgA), Ent("D1", dt, CfgA), "False",
                    StreamsUsers) : cn \in ConnNames},
              delete, {RemoteSrc("S1", "A", CfgA)}, {RemoteDst("D1", "B", CfgA)},
              {RemoteConn(cn, "S1", "D1", FALSE, RemoteStreamsUsers) :
                  cn \in ConnNames}) :
        st \in SrcTypes, dt \in DstTypes, delete \in BOOLEAN}

Scenarios ==
    SourceScenarios \cup DestinationScenarios \cup ConnectionScenarios
    \cup FreshScenarios \cup UnknownTypeScenarios \cup SharedScenarios

--------------------------------------------------------------------------------
(* State machine *)

NoResult == {Leaf(<<>>, "none", "", "")}
NoPrev == [dry_run |-> TRUE, pc |-> "idle", result |-> NoResult,
           start_remote |-> [sources |-> {}, destinations |-> {}, connections |-> {},
                             nextId |-> 0],
           calls |-> <<>>]

\* the inputs met with an unreliable transport: those of one connection at most
FlakyScenarios == {sc \in Scenarios : Cardinality(sc.objects) <= 1}

\* the state after construction over one of the given inputs, facing an
\* instance whose transport is or is not reliable
InitWith(unreliable, scenarios) ==
    \E sc \in scenarios :
        /\ objects = sc.objects
        /\ should_delete = sc.should_delete
        /\ flaky = unreliable
        /\ remote = sc.remote
        /\ pc = "idle"
        /\ dry_run = TRUE
        /\ runs = 0
        /\ existing_sources = EmptyMap
        /\ existing_dests = EmptyMap
        /\ existing_connections = EmptyMap
        /\ todo = {}
        /\ all_sources = EmptyMap
        /\ all_dests = EmptyMap
        /\ sources_diff = EmptyDiff
        /\ dests_diff = EmptyDiff
        /\ connections_diff = EmptyDiff
        /\ calls = <<>>
        /\ err = ""
        /\ result = NoResult
        /\ start_remote = sc.remote
        /\ prev = NoPrev

Init == InitWith(FALSE, Scenarios)

InitFlaky == InitWith(TRUE, FlakyScenarios)

\* the name-keyed maps reconcile_config builds from the objects
config_connections == [n \in {c.name : c \in objects} |->
                          CHOOSE c \in objects : c.name = n]
config_sources == [n \in {c.source.name : c \in objects} |->
                      (CHOOSE c \in objects : c.source.name = n).source]
config_dests == [n \in {c.destination.name : c \in objects} |->
                    (CHOOSE c \in objects : c.destination.name = n).destination]

\* a name-keyed map from a list response
entities_by_name(jsons) ==
    [n \in {j.name : j \in jsons} |->
        entity_from_api_json(CHOOSE j \in jsons : j.name = n)]

\* the name-keyed map of connections, decoded against the given entity maps
connections_by_name(jsons, init_sources, init_dests) ==
    [n \in {j.name : j \in jsons} |->
        connection_from_api_json(CHOOSE j \in jsons : j.name = n,
                                 init_sources, init_dests)]

Env == [remote |-> remote, calls |-> calls, err |-> err, failAfter |-> 0]

\* the environment of a step whose failAfter-th request fails
EnvFailing(failAfter) == [Env EXCEPT !.failAfter = failAfter]

\* which request of a step may fail, 0 for none, when e is what the step leaves
\* if none fails; none may when the transport is reliable
FailChoices(e) == IF flaky THEN 0..(Len(e.calls) - Len(calls)) ELSE {0}

\* reconcile_config up to and including the list call of reconcile_connections_pre
reconcile_config_begin(dry) ==
    /\ pc \in {"idle", "done", "error"}
    /\ runs < MaxRuns
    /\ runs' = runs + 1
    /\ dry_run' = dry
    /\ prev' = IF pc = "error" THEN [NoPrev EXCEPT !.pc = "error"]
                ELSE [dry_run |-> dry_run, pc |-> pc, result |-> result,
                      start_remote |-> start_remote, calls |-> calls]
    /\ start_remote' = remote
    /\ \E failAfter \in IF flaky THEN 0..3 ELSE {0} :
        LET e0 == [remote |-> remote, calls |-> <<>>, err |-> "",
                   failAfter |-> failAfter]
            e == lookup(lookup(lookup(e0, "/sources/list", NoId, ""),
                               "/destinations/list", NoId, ""),
                        "/connections/list", NoId, "")
            srcs == entities_by_name(remote.sources)
            dsts == entities_by_name(remote.destinations)
            conns == connections_by_name(remote.connections, srcs, dsts)
        IN /\ calls' = e.calls
           /\ err' = e.err
           /\ pc' = IF e.err # "" THEN "error" ELSE "pre"
           /\ existing_sources' = IF e.err # "" THEN EmptyMap ELSE srcs
           /\ existing_dests' = IF e.err # "" THEN EmptyMap ELSE dsts
           /\ existing_connections' = IF e.err # "" THEN EmptyMap ELSE conns
           /\ todo' = IF e.err # "" THEN {}
                      ELSE DOMAIN config_connections \cup DOMAIN conns
    /\ result' = NoResult
    /\ all_sources' = EmptyMap
    /\ all_dests' = EmptyMap
    /\ sources_diff' = EmptyDiff
    /\ dests_diff' = EmptyDiff
    /\ connections_diff' = EmptyDiff
    /\ UNCHANGED <<objects, should_delete, flaky, remote>>

\* AirbyteManagedElementReconciler.check
check == reconcile_config_begin(TRUE)

\* AirbyteManagedElementReconciler.apply
apply == reconcile_config_begin(FALSE)

\* Leave with the exception caught and the loop going on
Leave_swallowing(e, phase) ==
    /\ remote' = e.remote
    /\ calls' = e.calls
    /\ err' = ""
    /\ pc' = phase

\* what an iteration leaves behind: the instance, the calls, and the exception
Leave(e, phase) ==
    /\ remote' = e.remote
    /\ calls' = e.calls
    /\ err' = e.err
    /\ pc' = IF e.err # "" THEN "error" ELSE phase

reconcile_connections_pre_step ==
    /\ pc = "pre"
    /\ \E conn_name \in todo :
        \E failAfter \in FailChoices(
                reconcile_connections_pre_body(Env, conn_name, config_connections,
                    existing_connections, connections_diff, dry_run, should_delete).env) :
        LET r == reconcile_connections_pre_body(EnvFailing(failAfter), conn_name,
                     config_connections, existing_connections, connections_diff,
                     dry_run, should_delete)
        IN /\ Leave(r.env, "pre")
           /\ connections_diff' = r.diff
           /\ todo' = todo \ {conn_name}
    /\ UNCHANGED <<objects, should_delete, flaky, dry_run, runs, existing_sources,
                   existing_dests, existing_connections, all_sources, all_dests,
                   sources_diff, dests_diff, result, start_remote, prev>>

reconcile_sources_begin ==
    /\ pc = "pre"
    /\ todo = {}
    /\ pc' = "sources"
    /\ todo' = DOMAIN config_sources \cup DOMAIN existing_sources
    /\ UNCHANGED <<objects, should_delete, flaky, remote, dry_run, runs, existing_sources,
                   existing_dests, existing_connections, all_sources, all_dests,
                   sources_diff, dests_diff, connections_diff, calls, err, result,
                   start_remote, prev>>

reconcile_sources_step ==
    /\ pc = "sources"
    /\ \E source_name \in todo :
        \E failAfter \in FailChoices(
                reconcile_sources_body(Env, source_name, config_sources,
                    existing_sources, all_sources, sources_diff, dry_run,
                    should_delete).env) :
        LET r == reconcile_sources_body(EnvFailing(failAfter), source_name,
                     config_sources, existing_sources, all_sources, sources_diff,
                     dry_run, should_delete)
        IN /\ Leave(r.env, "sources")
           /\ all_sources' = r.out
           /\ sources_diff' = r.diff
           /\ todo' = todo \ {source_name}
    /\ UNCHANGED <<objects, should_delete, flaky, dry_run, runs, existing_sources,
                   existing_dests, existing_connections, all_dests, dests_diff,
                   connections_diff, result, start_remote, prev>>

reconcile_destinations_begin ==
    /\ pc = "sources"
    /\ todo = {}
    /\ pc' = "dests"
    /\ todo' = DOMAIN config_dests \cup DOMAIN existing_dests
    /\ UNCHANGED <<objects, should_delete, flaky, remote, dry_run, runs, existing_sources,
                   existing_dests, existing_connections, all_sources, all_dests,
                   sources_diff, dests_diff, connections_diff, calls, err, result,
                   start_remote, prev>>

reconcile_destinations_step ==
    /\ pc = "dests"
    /\ \E destination_name \in todo :
        \E failAfter \in FailChoices(
                reconcile_destinations_body(Env, destination_name, config_dests,
                    existing_dests, all_dests, dests_diff, dry_run, should_delete).env) :
        LET r == reconcile_destinations_body(EnvFailing(failAfter), destination_name,
                     config_dests, existing_dests, all_dests, dests_diff, dry_run,
                     should_delete)
        IN /\ Leave(r.env, "dests")
           /\ all_dests' = r.out
           /\ dests_diff' = r.diff
           /\ todo' = todo \ {destination_name}
    /\ UNCHANGED <<objects, should_delete, flaky, dry_run, runs, existing_sources,
                   existing_dests, existing_connections, all_sources, sources_diff,
                   connections_diff, result, start_remote, prev>>

\* reconcile_connections_post up to its loop: the second connections/list
reconcile_connections_post_begin ==
    /\ pc = "dests"
    /\ todo = {}
    /\ \E failAfter \in FailChoices(lookup(Env, "/connections/list", NoId, "")) :
        LET e == lookup(EnvFailing(failAfter), "/connections/list", NoId, "")
        IN /\ Leave(e, "post")
           /\ existing_connections' =
                  IF e.err # "" THEN existing_connections
                  ELSE connections_by_name(remote.connections, all_sources, all_dests)
           /\ todo' = IF e.err # "" THEN {} ELSE DOMAIN config_connections
    /\ UNCHANGED <<objects, should_delete, flaky, dry_run, runs, existing_sources,
                   existing_dests, all_sources, all_dests, sources_diff, dests_diff,
                   connections_diff, result, start_remote, prev>>

reconcile_connections_post_step ==
    /\ pc = "post"
    /\ \E conn_name \in todo, lenient \in BOOLEAN :
        \E failAfter \in FailChoices(
                reconcile_connections_post_body(Env, conn_name,
                    config_connections[conn_name], existing_connections,
                    all_sources, all_dests, dry_run, lenient)) :
        LET e == reconcile_connections_post_body(EnvFailing(failAfter), conn_name,
                     config_connections[conn_name], existing_connections,
                     all_sources, all_dests, dry_run, lenient)
        IN /\ Leave(e, "post")
           /\ todo' = todo \ {conn_name}
    /\ UNCHANGED <<objects, should_delete, flaky, dry_run, runs, existing_sources,
                   existing_dests, existing_connections, all_sources, all_dests,
                   sources_diff, dests_diff, connections_diff, result, start_remote,
                   prev>>

\* reconcile_config_return with the connection diff taken again from the list of
\* the post-phase instead of the diff of the pre-phase
reconcile_config_return_rediff ==
    /\ pc = "post"
    /\ todo = {}
    /\ pc' = "done"
    /\ result' = join(join(sources_diff, dests_diff),
                      UNION {diff_connections(config_connections[n],
                                 MapGet(existing_connections, n, NoInitConn).connection) :
                             n \in DOMAIN config_connections})
    /\ UNCHANGED <<objects, should_delete, flaky, remote, dry_run, runs, existing_sources,
                   existing_dests, existing_connections, todo, all_sources, all_dests,
                   sources_diff, dests_diff, connections_diff, calls, err,
                   start_remote, prev>>

\* the return of reconcile_config
reconcile_config_return ==
    /\ pc = "post"
    /\ todo = {}
    /\ pc' = "done"
    /\ result' = join(join(join(EmptyDiff, sources_diff), dests_diff), connections_diff)
    /\ UNCHANGED <<objects, should_delete, flaky, remote, dry_run, runs, existing_sources,
                   existing_dests, existing_connections, todo, all_sources, all_dests,
                   sources_diff, dests_diff, connections_diff, calls, err,
                   start_remote, prev>>

Next ==
    \/ check
    \/ apply
    \/ reconcile_connections_pre_step
    \/ reconcile_sources_begin
    \/ reconcile_sources_step
    \/ reconcile_destinations_begin
    \/ reconcile_destinations_step
    \/ reconcile_connections_post_begin
    \/ reconcile_connections_post_step
    \/ reconcile_config_return

Spec == Init /\ [][Next]_vars

\* the same program against an instance whose requests may fail in transport
SpecFlaky == InitFlaky /\ [][Next]_vars

--------------------------------------------------------------------------------
(* Properties *)

Mutating(i) == calls[i].endpoint \in MutatingEndpoints

Names(jsons) == {j.name : j \in jsons}
Ids(jsons) == {j.id : j \in jsons}

\* a configured entity whose type differs from the observed entity of its name
TypeChanged(config, existing, n) ==
    /\ n \in DOMAIN config \cap DOMAIN existing
    /\ config[n].type # existing[n].entity.type

\* every configured source, destination and connection is on the instance r with
\* the configured type, configuration and references
DesiredOnRemote(r) ==
    \A c \in objects :
        \E s \in r.sources, d \in r.destinations, x \in r.connections :
            /\ s.name = c.source.name /\ s.type = c.source.type /\ s.cfg = c.source.cfg
            /\ d.name = c.destination.name /\ d.type = c.destination.type
            /\ d.cfg = c.destination.cfg
            /\ x.name = c.name /\ x.sourceId = s.id /\ x.destinationId = d.id

\* C1: a reconcile_config with dry_run=true issues no mutating call (no create,
\* update or delete of a source, destination or connection, no operations/create)
\* and leaves the instance as it found it.
C1_DryRunIssuesNoMutatingCall ==
    (pc # "idle" /\ dry_run) =>
        /\ \A i \in DOMAIN calls : ~Mutating(i)
        /\ remote = start_remote

\* a finished dry run over an input where apply deletes a connection and
\* recreates a source
C1_Witness ==
    /\ pc = "done" /\ dry_run
    /\ \E c \in objects :
        /\ c.name \in Names(start_remote.connections)
        /\ TypeChanged(config_sources, existing_sources, c.source.name)
    /\ ~is_empty(result)

\* C2: with dry_run=false no sources/delete or destinations/delete is issued for
\* a source or destination that a connection of the instance still references
\* (the instance refuses exactly those deletes, and says so).
C2_DeleteNeverHitsReferencedEntity ==
    (pc # "idle" /\ ~dry_run) =>
        err \notin {"remote: source is referenced by a connection",
                    "remote: destination is referenced by a connection"}

\* C3: with dry_run=false, for a configured connection that exists on the instance
\* and references a source whose configured type differs from its observed type,
\* the connections/delete of that connection precedes every sources/delete and
\* sources/create of that source, and is issued once the pre-phase is over.
C3_ConnectionDeletedBeforeSourceRecreate ==
    (pc # "idle" /\ ~dry_run) =>
        \A c \in objects :
            (/\ c.name \in Names(start_remote.connections)
             /\ TypeChanged(config_sources, existing_sources, c.source.name)) =>
                /\ \A j \in DOMAIN calls :
                     (/\ calls[j].endpoint \in {"/sources/delete", "/sources/create"}
                      /\ calls[j].name = c.source.name) =>
                        \E i \in 1..(j - 1) :
                            /\ calls[i].endpoint = "/connections/delete"
                            /\ calls[i].name = c.name
                /\ pc \in {"sources", "dests", "post", "done"} =>
                     \E i \in DOMAIN calls :
                        /\ calls[i].endpoint = "/connections/delete"
                        /\ calls[i].name = c.name

\* an apply that deleted such a connection and then deleted and created the source
C3_Witness ==
    /\ pc = "done" /\ ~dry_run
    /\ \E c \in objects :
        /\ c.name \in Names(start_remote.connections)
        /\ TypeChanged(config_sources, existing_sources, c.source.name)
        /\ \E i, j \in DOMAIN calls :
            /\ calls[i].endpoint = "/sources/delete" /\ calls[i].name = c.source.name
            /\ calls[j].endpoint = "/sources/create" /\ calls[j].name = c.source.name

\* the instance r holds every configured entity and connection, with equal type,
\* configuration, references, normalization and stream modes, and nothing else
Converged(r) ==
    LET srcs == entities_by_name(r.sources)
        dsts == entities_by_name(r.destinations)
    IN /\ DesiredOnRemote(r)
       /\ Names(r.sources) = DOMAIN config_sources
       /\ Names(r.destinations) = DOMAIN config_dests
       /\ Names(r.connections) = DOMAIN config_connections
       /\ \A c \in objects :
            \E x \in r.connections :
                /\ x.name = c.name
                /\ is_empty(diff_connections(c,
                       connection_from_api_json(x, srcs, dsts).connection))

\* C4: started on a converged instance, reconcile_config with dry_run=false
\* issues no mutating call and returns an empty diff.
C4_ConvergedApplyIsSilent ==
    (pc # "idle" /\ ~dry_run /\ Converged(start_remote)) =>
        /\ \A i \in DOMAIN calls : ~Mutating(i)
        /\ pc = "done" => is_empty(result)

\* C5: a check and an apply that start from the same instance and both return,
\* return the same diff.
C5_DryRunDiffEqualsApplyDiff ==
    (/\ pc = "done" /\ prev.pc = "done"
     /\ prev.dry_run # dry_run
     /\ prev.start_remote = start_remote) =>
        result = prev.result

\* a check followed by an apply that changed the instance and reported a diff
C5_Witness ==
    /\ pc = "done" /\ prev.pc = "done"
    /\ prev.dry_run /\ ~dry_run
    /\ prev.start_remote = start_remote
    /\ ~is_empty(result)
    /\ remote # start_remote

\* delete of the observed id, then create, no update, and the result map holds
\* the configured entity under the id of an entity the instance now holds
DeletedThenCreated(kind, n, config, existing, out, held) ==
    /\ \E i, j \in DOMAIN calls :
        /\ i < j
        /\ calls[i].endpoint = kind \o "/delete" /\ calls[i].id = existing[n].id
        /\ calls[j].endpoint = kind \o "/create" /\ calls[j].name = n
    /\ \A i \in DOMAIN calls :
        ~(calls[i].endpoint = kind \o "/update" /\ calls[i].name = n)
    /\ n \in DOMAIN out
    /\ out[n].entity = config[n]
    /\ out[n].id # existing[n].id
    /\ \E x \in held : x.id = out[n].id /\ x.name = n

\* C6: with dry_run=false, a configured source or destination whose type differs
\* from the observed one is deleted under its observed id, then created, never
\* updated, and recorded in the result map with the id of the created entity.
C6_TypeChangeDeletesThenCreates ==
    (pc \in {"post", "done"} /\ ~dry_run) =>
        /\ \A n \in DOMAIN config_sources :
            TypeChanged(config_sources, existing_sources, n) =>
                DeletedThenCreated("/sources", n, config_sources, existing_sources,
                                   all_sources, remote.sources)
        /\ \A n \in DOMAIN config_dests :
            TypeChanged(config_dests, existing_dests, n) =>
                DeletedThenCreated("/destinations", n, config_dests, existing_dests,
                                   all_dests, remote.destinations)

\* C7: when apply returns, every configured source, destination and connection
\* is on the instance as configured, and a check right after it returns an
\* empty diff.
C7_ApplyConverges ==
    /\ (pc = "done" /\ ~dry_run) => DesiredOnRemote(remote)
    /\ (pc = "done" /\ dry_run /\ prev.pc = "done" /\ ~prev.dry_run) => is_empty(result)

\* C8: every connections/create carries the id of a source and of a destination
\* that the instance holds (sources and destinations no longer change once the
\* post-phase runs, so holding now is holding at the time of the call).
C8_CreateReferencesLiveEntities ==
    (pc \in {"post", "done", "error"} /\ ~dry_run) =>
        \A i \in DOMAIN calls :
            calls[i].endpoint = "/connections/create" =>
                /\ calls[i].sourceId \in Ids(remote.sources)
                /\ calls[i].destinationId \in Ids(remote.destinations)

\* C9: when a configured source has the name of an observed source and another
\* type, the diff check() returns has a leaf nested under that source's name.
C9_TypeChangeShowsInDiff ==
    (pc = "done" /\ dry_run) =>
        \A n \in DOMAIN config_sources :
            TypeChanged(config_sources, existing_sources, n) =>
                \E d \in result : d.path[1] = n

\* C10: on an empty instance the returned diff has an added leaf nested under
\* the name of every configured source, destination and connection.
C10_EmptyRemoteShowsAllAdded ==
    (/\ pc = "done"
     /\ start_remote.sources = {} /\ start_remote.destinations = {}
     /\ start_remote.connections = {}) =>
        \A n \in DOMAIN config_sources \cup DOMAIN config_dests
                 \cup DOMAIN config_connections :
            \E d \in result : d.path[1] = n /\ d.kind = "added"

\* C11: with should_delete false, a source, destination or connection of the
\* instance whose name is not configured gets no update and no delete call, adds
\* no leaf to the diff of its kind, stays on the instance as it was, and (sources
\* and destinations) is in the result map of its reconciler as it was observed.
C11_UnmentionedLeftAlone ==
    (pc # "idle" /\ ~should_delete) =>
        /\ \A x \in start_remote.sources :
            x.name \notin DOMAIN config_sources =>
                /\ \A i \in DOMAIN calls :
                     calls[i].endpoint \in {"/sources/update", "/sources/delete"}
                        => calls[i].id # x.id /\ calls[i].name # x.name
                /\ \A d \in sources_diff : d.path[1] # x.name
                /\ x \in remote.sources
                /\ pc \in {"dests", "post", "done"} =>
                     /\ x.name \in DOMAIN all_sources
                     /\ all_sources[x.name] = entity_from_api_json(x)
        /\ \A x \in start_remote.destinations :
            x.name \notin DOMAIN config_dests =>
                /\ \A i \in DOMAIN calls :
                     calls[i].endpoint \in {"/destinations/update", "/destinations/delete"}
                        => calls[i].id # x.id /\ calls[i].name # x.name
                /\ \A d \in dests_diff : d.path[1] # x.name
                /\ x \in remote.destinations
                /\ pc \in {"post", "done"} =>
                     /\ x.name \in DOMAIN all_dests
                     /\ all_dests[x.name] = entity_from_api_json(x)
        /\ \A x \in start_remote.connections :
            x.name \notin DOMAIN config_connections =>
                /\ \A i \in DOMAIN calls :
                     calls[i].endpoint \in {"/connections/update", "/connections/delete"}
                        => calls[i].id # x.id /\ calls[i].name # x.name
                /\ \A d \in connections_diff : d.path[1] # x.name
                /\ x \in remote.connections

\* an apply that returned, with should_delete false, over an instance that holds
\* a source and a connection that are not configured, and that changed the instance
C11_Witness ==
    /\ pc = "done" /\ ~dry_run /\ ~should_delete
    /\ \E x \in start_remote.sources : x.name \notin DOMAIN config_sources
    /\ \E x \in start_remote.connections : x.name \notin DOMAIN config_connections
    /\ \E i \in DOMAIN calls : Mutating(i)

\* the destination's definition is known and supports basic normalization
SupportsNormalization(destination) ==
    destination.defn # NoDefn /\ does_dest_support_normalization(destination.defn)

OperationsCreated(cs) ==
    {i \in DOMAIN cs : cs[i].endpoint = "/operations/create"}

\* C12: reconcile_normalization, for every connection id of the instance (with
\* or without an operation) or none, every destination the reconciler knows and
\* every setting: unset and an unsupporting destination give no operation and no
\* error; true and an unsupporting destination give an error; false gives no
\* operation, no error and no operations/create, whatever the destination and
\* the connection.  And an apply whose connections all set false issues no
\* operations/create.
C12_NormalizationResolution ==
    /\ err = "" =>
        \A id \in {NoId} \cup Ids(remote.connections),
           destination \in Range(existing_dests) \cup Range(all_dests),
           normalization_config \in {"None", "True", "False"} :
            LET r == reconcile_normalization(Env, id, destination, normalization_config)
            IN /\ (normalization_config = "None" /\ ~SupportsNormalization(destination))
                    => r.op = NoId /\ r.env.err = ""
               /\ (normalization_config = "True" /\ ~SupportsNormalization(destination))
                    => r.env.err # ""
               /\ normalization_config = "False"
                    => /\ r.op = NoId /\ r.env.err = ""
                       /\ OperationsCreated(r.env.calls) = OperationsCreated(calls)
                       /\ r.env.remote = remote
    /\ (pc # "idle" /\ \A c \in objects : c.normalize_data = "False")
        => OperationsCreated(calls) = {}

\* an apply that stopped in reconcile_normalization because normalization was
\* asked of a destination that does not support it, on an instance that holds a
\* connection with a normalization operation
C12_Witness ==
    /\ pc = "error" /\ ~dry_run
    /\ err = "Exception: destination does not support normalization"
    /\ \E x \in remote.connections : x.operationIds # {}
    /\ \E destination \in Range(all_dests) : ~SupportsNormalization(destination)

\* the place of x in the sequence seq
Position(seq, x) == CHOOSE k \in DOMAIN seq : seq[k] = x

\* C13: the syncCatalog of every connections/create and connections/update holds
\* one entry for each stream of the source's discovered catalog whose name is a
\* key of the connection's stream_config and no other entry, in the order of the
\* catalog, each with the syncMode and destinationSyncMode of the configured
\* mode; a stream_config key that the catalog lacks adds nothing and stops nothing.
C13_SyncCatalogIsFilteredCatalog ==
    (pc \in {"post", "done", "error"} /\ ~dry_run) =>
        \A i \in DOMAIN calls :
            calls[i].endpoint \in {"/connections/create", "/connections/update"} =>
                LET c == config_connections[calls[i].name]
                    catalog == get_source_schema(remote, all_sources[c.source.name].id)
                    streams == calls[i].streams
                IN /\ {streams[k].name : k \in DOMAIN streams}
                        = Range(catalog) \cap DOMAIN c.stream_config
                   /\ Len(streams) = Cardinality(Range(catalog) \cap DOMAIN c.stream_config)
                   /\ \A k, l \in DOMAIN streams :
                        k < l => Position(catalog, streams[k].name)
                                    < Position(catalog, streams[l].name)
                   /\ \A k \in DOMAIN streams :
                        streams[k].config = SyncModeValue(c.stream_config[streams[k].name])

\* an apply that returned after a connection call whose stream_config names two
\* streams of the catalog, with different modes, and one the catalog lacks
C13_Witness ==
    /\ pc = "done" /\ ~dry_run
    /\ \E i \in DOMAIN calls :
        /\ calls[i].endpoint \in {"/connections/create", "/connections/update"}
        /\ calls[i].ok
        /\ Len(calls[i].streams) = 2
        /\ calls[i].streams[1].config # calls[i].streams[2].config
        /\ DOMAIN config_connections[calls[i].name].stream_config
              \ {calls[i].streams[k].name : k \in DOMAIN calls[i].streams} # {}

\* the instance r after the requests of cs that it accepted, in order
RECURSIVE Replay(_, _)
Replay(r, cs) ==
    IF cs = <<>> THEN r
    ELSE Replay(IF Head(cs).ok /\ Head(cs).endpoint \in MutatingEndpoints
                THEN make_request([remote |-> r, calls |-> <<>>, err |-> "",
                                   failAfter |-> 0], Head(cs), TRUE).remote
                ELSE r,
                Tail(cs))

\* C14: a request that fails (in transport, or refused by the instance) is the
\* last request of its reconcile_config, which ends with the exception and
\* returns no diff; and the instance is then what the accepted requests before
\* the failure made of it: nothing is undone.
C14_FailureEndsThePass ==
    /\ \A i \in DOMAIN calls :
        ~calls[i].ok => i = Len(calls) /\ pc = "error" /\ err # ""
    /\ pc = "error" => result = NoResult /\ remote = Replay(start_remote, calls)

\* an apply that changed the instance and then met a request that failed in
\* transport
C14_Witness ==
    /\ pc = "error" /\ ~dry_run
    /\ err = "remote: request failed"
    /\ remote # start_remote
    /\ \E i \in DOMAIN calls : Mutating(i) /\ calls[i].ok
    /\ Mutating(Len(calls)) /\ ~calls[Len(calls)].ok

\* the i-th call looked up the definition of a type the instance does not know
UnknownDefinitionLookup(i, endpoint, known) ==
    /\ calls[i].endpoint = endpoint
    /\ calls[i].ok
    /\ calls[i].name \notin known

\* C15: once the definition lookup for a configured source's or destination's
\* type has found nothing, in a dry run as in an apply, the reconcile_config has
\* ended with an exception and no create or update of that kind follows the lookup.
C15_UnknownTypeIsFatal ==
    \A i \in DOMAIN calls :
        /\ UnknownDefinitionLookup(i, "get_source_definition_by_name", KnownSrcTypes) =>
            /\ pc = "error"
            /\ \A j \in DOMAIN calls :
                 j > i => calls[j].endpoint \notin {"/sources/create", "/sources/update"}
        /\ UnknownDefinitionLookup(i, "get_destination_definition_by_name",
                                   KnownDstTypes) =>
            /\ pc = "error"
            /\ \A j \in DOMAIN calls :
                 j > i => calls[j].endpoint
                            \notin {"/destinations/create", "/destinations/update"}

\* the phase of reconcile_config that issues the i-th call: 1 the lists of
\* sources and destinations, 2 the pre-phase, 3 reconcile_sources,
\* 4 reconcile_destinations, 5 the post-phase.  The first connections/list is the
\* pre-phase's, the second the post-phase's.
PhaseOf(i) ==
    LET ep == calls[i].endpoint
    IN CASE ep \in {"/sources/list", "/destinations/list"} -> 1
         [] ep = "/connections/list" ->
              IF \E j \in 1..(i - 1) : calls[j].endpoint = "/connections/list"
              THEN 5 ELSE 2
         [] ep = "/connections/delete" -> 2
         [] ep \in {"get_source_definition_by_name", "/sources/delete",
                    "/sources/update", "/sources/create"} -> 3
         [] ep \in {"get_destination_definition_by_name", "/destinations/delete",
                    "/destinations/update", "/destinations/create"} -> 4
         [] OTHER -> 5

EntityMutations ==
    {"/sources/delete", "/sources/update", "/sources/create",
     "/destinations/delete", "/destinations/update", "/destinations/create"}

\* C16: the calls of a reconcile_config come in the order of the phases: the
\* lists of sources and destinations, the pre-phase (connections/list, every
\* connections/delete), the calls for sources, the calls for destinations, the
\* post-phase (connections/list, operations calls, connections/update and
\* connections/create).  No connections/delete follows a source or destination
\* mutation and no connections/create or connections/update precedes one.
C16_PhaseOrder ==
    /\ \A i, j \in DOMAIN calls : i < j => PhaseOf(i) <= PhaseOf(j)
    /\ \A i, j \in DOMAIN calls :
        (calls[i].endpoint \in EntityMutations /\ i < j)
            => calls[j].endpoint # "/connections/delete"
    /\ \A i, j \in DOMAIN calls :
        (calls[j].endpoint \in EntityMutations /\ i < j)
            => calls[i].endpoint \notin {"/connections/create", "/connections/update"}
    /\ pc \in {"pre", "sources", "dests", "post", "done"} =>
        /\ calls[1].endpoint = "/sources/list"
        /\ calls[2].endpoint = "/destinations/list"
        /\ calls[3].endpoint = "/connections/list"
    /\ pc \in {"post", "done"} =>
        Cardinality({i \in DOMAIN calls : calls[i].endpoint = "/connections/list"}) = 2

\* an apply that returned after calls of every phase: a connections/delete, a
\* source delete and create, a destination update, a catalog lookup and a
\* connections/create
C16_Witness ==
    /\ pc = "done" /\ ~dry_run
    /\ \A ep \in {"/connections/delete", "/sources/delete", "/sources/create",
                   "/destinations/update", "get_source_catalog_id",
                   "/connections/create"} :
        \E i \in DOMAIN calls : calls[i].endpoint = ep

\* the calls to an endpoint that carry the name n
CallsFor(endpoint, n) ==
    {i \in DOMAIN calls : calls[i].endpoint = endpoint /\ calls[i].name = n}

\* the configured entity n, of the kind with the endpoints kind/..., was updated
\* once under its observed id and never created, or - when none was observed -
\* created once with the definition of its type and never updated; the result
\* map out has it under the observed id, or under the id it has on the instance
UpdatedOrCreatedOnce(kind, n, config, existing, known, out, start_held, held) ==
    IF n \in DOMAIN existing
    THEN /\ Cardinality(CallsFor(kind \o "/update", n)) = 1
         /\ \A i \in CallsFor(kind \o "/update", n) :
               calls[i].id = existing[n].id /\ calls[i].cfg = config[n].cfg
         /\ CallsFor(kind \o "/create", n) = {}
         /\ out[n].entity = config[n]
         /\ out[n].id = existing[n].id
    ELSE /\ Cardinality(CallsFor(kind \o "/create", n)) = 1
         /\ \A i \in CallsFor(kind \o "/create", n) :
               /\ calls[i].defn = get_definition_by_name(known, config[n].type)
               /\ calls[i].cfg = config[n].cfg
         /\ CallsFor(kind \o "/update", n) = {}
         /\ out[n].entity = config[n]
         /\ out[n].id \notin Ids(start_held)
         /\ \E x \in held : x.name = n /\ x.id = out[n].id

\* C17: with dry_run=false, once the loop over the sources (the destinations) is
\* over, a configured source (destination) that needs no recreate - none of its
\* name is observed, or the observed one has its type - got exactly one update
\* with the observed id and the configured configuration and keeps that id in
\* the result map if it was observed, and else exactly one create with the
\* looked-up definition id, the result map holding the id the create returned.
C17_UpdateOrCreateOnce ==
    /\ (pc \in {"dests", "post", "done"} /\ ~dry_run) =>
        \A n \in DOMAIN config_sources :
            ~TypeChanged(config_sources, existing_sources, n) =>
                UpdatedOrCreatedOnce("/sources", n, config_sources, existing_sources,
                                     KnownSrcTypes, all_sources,
                                     start_remote.sources, remote.sources)
    /\ (pc \in {"post", "done"} /\ ~dry_run) =>
        \A n \in DOMAIN config_dests :
            ~TypeChanged(config_dests, existing_dests, n) =>
                UpdatedOrCreatedOnce("/destinations", n, config_dests, existing_dests,
                                     KnownDstTypes, all_dests,
                                     start_remote.destinations, remote.destinations)

\* an apply that returned after it updated an observed source and created a
\* destination that was not observed
C17_Witness ==
    /\ pc = "done" /\ ~dry_run
    /\ \E n \in DOMAIN config_sources \cap DOMAIN existing_sources :
        /\ ~TypeChanged(config_sources, existing_sources, n)
        /\ CallsFor("/sources/update", n) # {}
    /\ \E n \in DOMAIN config_dests \ DOMAIN existing_dests :
        CallsFor("/destinations/create", n) # {}

ConnectionCalls(n) ==
    CallsFor("/connections/update", n) \cup CallsFor("/connections/create", n)

\* C18: with dry_run=false the post-phase builds its connection call for every
\* configured connection, whatever its name: no lookup by the connection's name
\* in the source map fails; a connections/update carries the connectionId of
\* the connection of that name in the re-fetched list and the catalog id of the
\* source the connection references; a connections/create carries the final
\* source id, destination id and that catalog id; and when apply returns every
\* configured connection got exactly one of the two.
C18_OneConnectionCallPerConnection ==
    (pc \in {"post", "done", "error"} /\ ~dry_run) =>
        /\ err # "KeyError: init_sources[conn_name]"
        /\ \A n \in DOMAIN config_connections :
            LET source == MapGet(all_sources, config_connections[n].source.name, NoInit)
                destination == MapGet(all_dests, config_connections[n].destination.name,
                                      NoInit)
            IN /\ \A i \in CallsFor("/connections/update", n) :
                    /\ n \in DOMAIN existing_connections
                    /\ calls[i].id = existing_connections[n].connection_id
                    /\ calls[i].catalogId = CatalogId(source.id)
               /\ \A i \in CallsFor("/connections/create", n) :
                    /\ n \notin DOMAIN existing_connections
                    /\ calls[i].sourceId = source.id
                    /\ calls[i].destinationId = destination.id
                    /\ calls[i].catalogId = CatalogId(source.id)
               /\ pc = "done" => Cardinality(ConnectionCalls(n)) = 1

\* the configured connection c is on the instance r with a normalization
\* operation attached
HasNormalizationOn(r, c) ==
    \E x \in r.connections : x.name = c.name /\ x.operationIds # {}

\* C19: with dry_run=false, when every configured connection wants
\* normalization (set or unset), goes to a destination that supports it, and is
\* on the instance with a normalization operation attached when the post-phase
\* lists the connections, the post-phase issues no operations/create and every
\* connections/update carries the operation the connection already has.
C19_NormalizationIsIdempotent ==
    (/\ pc \in {"post", "done", "error"} /\ ~dry_run
     /\ \A c \in objects :
            /\ c.normalize_data # "False"
            /\ c.destination.name \in DOMAIN all_dests
            /\ SupportsNormalization(all_dests[c.destination.name])
            /\ HasNormalizationOn(start_remote, c)
            /\ c.name \in DOMAIN existing_connections) =>
        /\ OperationsCreated(calls) = {}
        /\ \A c \in objects :
            \A i \in CallsFor("/connections/update", c.name) :
                \E x \in start_remote.connections :
                    x.name = c.name /\ calls[i].operationIds = x.operationIds

\* reconcile_sources / reconcile_destinations will delete the observed entity
\* named n, to drop it or to recreate it
WillBeDeleted(config, existing, n) ==
    /\ n \in DOMAIN existing
    /\ \/ n \notin DOMAIN config /\ should_delete
       \/ TypeChanged(config, existing, n)

\* the names of the observed entities that carry the id
NamesOfId(existing, id) == {n \in DOMAIN existing : existing[n].id = id}

\* the observed connection x is one the pre-phase is to delete: not configured
\* and should_delete, or configured and a source or destination it references -
\* by name in the configuration, or by id on the instance - will be deleted
MustGoInPre(x) ==
    IF x.name \notin DOMAIN config_connections THEN should_delete
    ELSE LET c == config_connections[x.name]
         IN \/ \E n \in {c.source.name} \cup NamesOfId(existing_sources, x.sourceId) :
                  WillBeDeleted(config_sources, existing_sources, n)
            \/ \E n \in {c.destination.name}
                         \cup NamesOfId(existing_dests, x.destinationId) :
                  WillBeDeleted(config_dests, existing_dests, n)

\* C20: with dry_run=false, once the pre-phase is over, the observed connections
\* it issued connections/delete for are exactly those that are not configured
\* while should_delete is true, or configured with a referenced source or
\* destination that reconcile_sources / reconcile_destinations will delete; a
\* configured connection whose source and destination need no recreate got none.
C20_PreDeletesExactlyDependents ==
    (pc \in {"sources", "dests", "post", "done"} /\ ~dry_run) =>
        \A x \in start_remote.connections :
            (\E i \in DOMAIN calls :
                calls[i].endpoint = "/connections/delete" /\ calls[i].id = x.id)
            <=> MustGoInPre(x)

\* C21: once the loop of reconcile_sources (reconcile_destinations) is over, the
\* keys of its result map are the configured names and, when should_delete is
\* false, the observed names that are not configured: an observed entity that
\* is not configured and was deleted (in a dry run, would be) has no entry.
C21_ResultMapKeys ==
    /\ pc \in {"dests", "post", "done"} =>
        DOMAIN all_sources
            = DOMAIN config_sources
              \cup (IF should_delete THEN {} ELSE DOMAIN existing_sources)
    /\ pc \in {"post", "done"} =>
        DOMAIN all_dests
            = DOMAIN config_dests
              \cup (IF should_delete THEN {} ELSE DOMAIN existing_dests)

\* C22: when the post-phase runs, the source name and the destination name of
\* every configured connection are keys of the maps that reconcile_sources and
\* reconcile_destinations returned, in a dry run and in an apply, with and
\* without should_delete; no pass ends in the KeyError of
\* init_dests[config_conn.destination.name] or
\* init_sources[config_conn.source.name].
C22_ConnectionEndsAreKeys ==
    /\ pc = "post" =>
        \A c \in objects :
            /\ c.source.name \in DOMAIN all_sources
            /\ c.destination.name \in DOMAIN all_dests
    /\ err \notin {"KeyError: init_dests", "KeyError: init_sources"}

\* an apply whose post-phase has resolved the source of a connection after the
\* destination of that connection was deleted by reconcile_destinations
C22_Witness ==
    /\ pc = "post"
    /\ ~dry_run
    /\ \E c \in objects :
        /\ CallsFor("/destinations/delete", c.destination.name) # {}
        /\ c.destination.name \in DOMAIN all_dests
    /\ \E i \in DOMAIN calls : calls[i].endpoint = "get_source_schema"

\* the requests of one pass for the name n of the kind with the endpoints
\* kind/...: at most one delete, at most one update or create, no update after
\* a delete
AtMostOnce(kind, n) ==
    LET deletes == CallsFor(kind \o "/delete", n)
        updates == CallsFor(kind \o "/update", n)
        creates == CallsFor(kind \o "/create", n)
    IN /\ Cardinality(deletes) <= 1
       /\ Cardinality(updates \cup creates) <= 1
       /\ \A i \in deletes, j \in updates : j < i

\* C23: in a pass with dry_run=false every source name, every destination name
\* and every connection name gets at most one delete request and at most one
\* request that is an update or a create, and no update after its delete,
\* however many configured connections share a source or a destination.
C23_AtMostOneDeleteAndOneWrite ==
    ~dry_run =>
        /\ \A n \in SrcNames : AtMostOnce("/sources", n)
        /\ \A n \in DstNames : AtMostOnce("/destinations", n)
        /\ \A n \in ConnNames : AtMostOnce("/connections", n)

\* an apply that returned with two configured connections on one source and one
\* destination, the source and the destination written once, and one of the
\* connections deleted in the pre-phase and created in the post-phase
C23_Witness ==
    /\ pc = "done" /\ ~dry_run
    /\ \E c, d \in objects :
        /\ c.name # d.name
        /\ c.source.name = d.source.name
        /\ c.destination.name = d.destination.name
        /\ CallsFor("/sources/update", c.source.name)
               \cup CallsFor("/sources/create", c.source.name) # {}
        /\ CallsFor("/destinations/update", c.destination.name)
               \cup CallsFor("/destinations/create", c.destination.name) # {}
        /\ CallsFor("/connections/delete", c.name) # {}
        /\ CallsFor("/connections/create", c.name) # {}

====
